---- MODULE Spec2Model ----
(***************************************************************************)
(* Dialogs of cockpit-machines: the Add-disk dialog (AddDiskModalBody),    *)
(* the storage-pool delete dialog (StoragePoolDelete) and the boot-order   *)
(* dialog (BootOrderModal).  Each dialog is a React component: its state   *)
(* is the component state, its actions are the event handlers and the      *)
(* settlement of the promises the handlers started.                        *)
(***************************************************************************)
EXTENDS Integers, Sequences, FiniteSets, Bags, TLC

VARIABLES
    storagePools,   \* props.storagePools of the Add-disk dialog (fixed while it is shown)
    vm,             \* props.vm
    vms,            \* props.vms
    state,          \* this.state of AddDiskModalBody
    open,           \* the dialog is mounted (props.close has not been called)
    cancelled,      \* the user closed the dialog (Cancel, or onClose of the Modal)
    loadCall,       \* storagePoolGetAll of componentDidMount: pending / resolved / rejected
    chains,         \* the promise chains of onAddClicked that still have a call outstanding (a bag)
    last,           \* the handler or promise callback that ran last, the calls it issued,
                    \* and whether it invoked props.close
    storagePool,    \* props.storagePool of the storage-pool delete dialog
    deleteVms,      \* props.vms of the storage-pool delete dialog
    deleteState,    \* this.state of StoragePoolDelete
    deleteOpen,     \* the storage-pool delete dialog is mounted
    deleteChains,   \* the promise chains of delete() that still have a call outstanding (a bag)
    deleteLast,     \* as last, for the storage-pool delete dialog
    bootVm,         \* props.vm of BootOrderLink and BootOrderModal
    bootOrderShow,  \* bootOrderShow of BootOrderLink: BootOrderModal is mounted
    bootState,      \* this.state of BootOrderModal
    bootChains,     \* the promise chains of save() whose domainChangeBootOrder is outstanding
    bootLast        \* the handler or promise callback of the boot-order dialog that ran last

addDiskVars == <<storagePools, vm, vms, state, open, cancelled, loadCall, chains, last>>

deleteVars == <<storagePool, deleteVms, deleteState, deleteOpen, deleteChains, deleteLast>>

bootVars == <<bootVm, bootOrderShow, bootState, bootChains, bootLast>>

vars == <<addDiskVars, deleteVars, bootVars>>

(***************************************************************************)
(* Bounds of the model.                                                    *)
(***************************************************************************)
MaxInFlight == 2    \* promise chains of onAddClicked with a call outstanding

(***************************************************************************)
(* JavaScript values.                                                      *)
(***************************************************************************)
UNDEF == "undefined"

\* a string value passed where an object is expected: it has no own fields
JsString(v) == [string |-> v]

\* obj.type, undefined when obj has no such property
TypeOf(obj) == IF "type" \in DOMAIN obj THEN obj.type ELSE UNDEF

\* the order String.prototype.localeCompare gives the names used here
NameOrder == <<"a", "b", "c", "v1", "v2", "v3">>

Rank(n) == CHOOSE i \in 1..Len(NameOrder) : NameOrder[i] = n

localeCompare(a, b) == Rank(a) - Rank(b)

\* Array.prototype.sort with (a, b) => a.name.localeCompare(b.name), on records with unique names
RECURSIVE SortByName(_)
SortByName(S) ==
    IF S = {} THEN <<>>
    ELSE LET first == CHOOSE x \in S : \A y \in S : localeCompare(x.name, y.name) <= 0
         IN  <<first>> \o SortByName(S \ {first})

\* merge of an object into another: { ...obj, ...delta }
Merge(obj, delta) ==
    [k \in DOMAIN obj \cup DOMAIN delta |-> IF k \in DOMAIN delta THEN delta[k] ELSE obj[k]]

CREATE_NEW == "create-new"
USE_EXISTING == "use-existing"
CUSTOM_PATH == "custom-path"

Modes == {CREATE_NEW, USE_EXISTING, CUSTOM_PATH}

poolTypesNotSupportingVolumeCreation == {"iscsi", "iscsi-direct", "gluster", "mpath"}

(***************************************************************************)
(* The environment: pools, volumes, VMs and their disks.                   *)
(***************************************************************************)
Connection == "system"

Volume(n, p, f) == [name |-> n, path |-> p, format |-> f]

\* capacity in bytes
Pool(n, t, vols, cap) ==
    [name |-> n, type |-> t, connectionName |-> Connection, volumes |-> vols, capacity |-> cap]

PoolA == Pool("a", "dir", {Volume("v1", "/a/v1", "qcow2"), Volume("v2", "/a/v2", "raw")}, 1610612736)
PoolBDisk == Pool("b", "disk", {Volume("v1", "/b/v1", "none")}, 1073741824)
PoolBDir == Pool("b", "dir", {Volume("v1", "/b/v1", "raw")}, 1073741824)
PoolC == Pool("c", "iscsi", {}, 536870912)

PoolCatalogue == {PoolA, PoolBDisk, PoolBDir, PoolC}

\* a disk of a VM: vm.disks[target], with disk.source flattened
Disk(t, dev, bus, type, file, vol, pool) ==
    [target |-> t, device |-> dev, bus |-> bus, type |-> type,
     file |-> file, volume |-> vol, pool |-> pool]

Vm(n, st, disks) ==
    [name |-> n, connectionName |-> Connection, state |-> st, persistent |-> TRUE, disks |-> disks]

\* another VM of the connection that uses the raw volume v2 of pool a
UserOfV2(n) == Vm(n, "shut off", { Disk("vdb", "disk", "virtio", "volume", UNDEF, "v2", "a") })

Scenario(pools, v, others) == [storagePools |-> pools, vm |-> v, others |-> others]

\* the props the dialog is opened with
Scenarios ==
    { Scenario({}, Vm("vm1", "shut off", {}), {}),
      Scenario({PoolA, PoolBDisk},
               Vm("vm1", "running", { Disk("vda", "disk", "virtio", "file", "/a/v1", UNDEF, UNDEF) }),
               {UserOfV2("vm2")}),
      Scenario({PoolA, PoolBDir},
               Vm("vm1", "shut off",
                  { Disk("vda", "disk", "virtio", "volume", UNDEF, "v1", "a"),
                    Disk("sda", "cdrom", "sata", "file", "/iso/boot.iso", UNDEF, UNDEF) }),
               {}),
      Scenario({PoolC}, Vm("vm1", "shut off", {}), {}),
      Scenario({PoolA, PoolC}, Vm("vm1", "running", {}), {UserOfV2("vm2")}) }

FindPool(pools, name) ==
    IF \E p \in pools : p.name = name
    THEN CHOOSE p \in pools : p.name = name
    ELSE [name |-> UNDEF]

Found(x) == x.name # UNDEF

(***************************************************************************)
(* helpers.js and libvirtApi/domain.js, as the dialogs use them.           *)
(***************************************************************************)
\* getDefaultVolumeFormat(pool): the default format of a new volume of the pool
getDefaultVolumeFormat(pool) ==
    IF TypeOf(pool) = "disk" THEN "none"
    ELSE IF TypeOf(pool) \in {"dir", "fs", "netfs", "gluster", "vstorage"} THEN "qcow2"
    ELSE UNDEF

\* the device names of a bus, in the order getNextAvailableTarget tries them
TargetNames(busType) ==
    IF busType = "virtio" THEN <<"vda", "vdb", "vdc">>
    ELSE IF busType = "ide" THEN <<"hda", "hdb", "hdc">>
    ELSE <<"sda", "sdb", "sdc">>

\* getNextAvailableTarget(existingTargets, busType): the first free device name of the bus
getNextAvailableTarget(existingTargets, busType) ==
    LET names == TargetNames(busType)
        free == { i \in 1..Len(names) : names[i] \notin existingTargets }
    IN  IF free = {} THEN UNDEF
        ELSE names[CHOOSE i \in free : \A j \in free : i <= j]

domainIsRunning(vmState) == vmState = "running"

\* bus types that are the same for every device
diskBusTypesOfDisk(device) == {"sata", "scsi", "usb", "virtio"}

\* diskBusTypes[device]: the bus types a device can be attached to
diskBusTypes(device) ==
    IF device = "cdrom" THEN {"sata", "scsi", "usb"} ELSE {"sata", "scsi", "usb", "virtio"}

UnitBytes(unit) == IF unit = "GiB" THEN 1073741824 ELSE 1048576

\* convertToUnit(input, units.B, unit), compared with a whole number: its integer part
convertToUnit(bytes, unit) == bytes \div UnitBytes(unit)

\* getStorageVolumesUsage(vms, storagePool): volume name -> the VMs that use the volume
getStorageVolumesUsage(allVms, pool) ==
    [ n \in { v.name : v \in pool.volumes } |->
        LET vol == CHOOSE v \in pool.volumes : v.name = n
        IN  { m.name : m \in { x \in allVms :
                /\ x.connectionName = pool.connectionName
                /\ \E d \in x.disks :
                      \/ d.type = "volume" /\ d.volume = n /\ d.pool = pool.name
                      \/ d.type = "file" /\ d.file = vol.path } } ]

(***************************************************************************)
(* diskAdd.jsx                                                             *)
(***************************************************************************)
\* the paths and volume names the disks of the VM use
usedDiskPaths(disks) ==
    { IF d.file # UNDEF THEN d.file ELSE d.volume :
        d \in { x \in disks : x.file # UNDEF \/ x.volume # UNDEF } }

\* getFilteredVolumes without the filter of the used volumes
getFilteredVolumesUnfiltered(vmStoragePool, disks) == SortByName(vmStoragePool.volumes)

getFilteredVolumes(vmStoragePool, disks) ==
    SortByName({ volume \in vmStoragePool.volumes :
                    /\ volume.path \notin usedDiskPaths(disks)
                    /\ volume.name \notin usedDiskPaths(disks) })

\* this.state right after the constructor: only validate and dialogLoading are set;
\* the fields not yet set read as undefined (false and 0 stand for the falsy
\* undefined of the boolean and numeric fields)
ConstructedState ==
    [ validate |-> FALSE, dialogLoading |-> TRUE,
      file |-> UNDEF, device |-> UNDEF,
      storagePoolName |-> UNDEF, storagePoolType |-> UNDEF,
      mode |-> UNDEF, volumeName |-> UNDEF, existingVolumeName |-> UNDEF,
      size |-> 0, unit |-> UNDEF, format |-> UNDEF, target |-> UNDEF,
      permanent |-> FALSE, hotplug |-> FALSE, addDiskInProgress |-> FALSE,
      cacheMode |-> UNDEF, busType |-> UNDEF, updateDisks |-> FALSE,
      dialogError |-> UNDEF, dialogErrorDetail |-> UNDEF ]

existingTargets == { d.target : d \in vm.disks }

\* the pool initialState selects: the first by name
defaultPool ==
    IF storagePools = {} THEN [name |-> UNDEF, type |-> UNDEF]
    ELSE LET first == SortByName(storagePools)[1]
         IN  [name |-> first.name, type |-> first.type]

\* get initialState(); storagePools, vm and vms of the state are the props
initialState ==
    [ file |-> "", device |-> "disk",
      storagePoolName |-> defaultPool.name,
      storagePoolType |-> defaultPool.type,
      mode |-> CREATE_NEW,
      volumeName |-> UNDEF,
      existingVolumeName |-> UNDEF,
      size |-> 1,
      unit |-> "GiB",
      format |-> IF Found(defaultPool) THEN getDefaultVolumeFormat(defaultPool) ELSE UNDEF,
      target |-> getNextAvailableTarget(existingTargets, "virtio"),
      permanent |-> ~domainIsRunning(vm.state),
      hotplug |-> domainIsRunning(vm.state),
      addDiskInProgress |-> FALSE,
      cacheMode |-> "default",
      busType |-> "virtio",
      updateDisks |-> FALSE ]

\* the messages of validateParams
MsgChoosePool == "Please choose a storage pool"
MsgEnterName == "Please enter new volume name"
MsgNoCreation == "Pool type does not support volume creation"
MsgTooLarge == "Storage volume size must not exceed the storage pool's capacity"
MsgChooseVolume == "Please choose a volume"

Falsy(v) == v = UNDEF \/ v = ""

\* validateParams() throws a TypeError: in CREATE_NEW mode it reads the capacity of the
\* pool named storagePoolName, which find() did not find
validateParamsThrows(s) ==
    /\ s.mode = CREATE_NEW
    /\ ~\E p \in storagePools : p.name = s.storagePoolName

\* validateParams() that does not compare the size with the capacity of the pool
validateParamsWithoutSize(s) ==
    LET pool == ("storagePool" :> MsgChoosePool)
        none == [k \in {} |-> ""]
        v1 == IF s.mode # CUSTOM_PATH /\ Falsy(s.storagePoolName) THEN pool ELSE none
    IN  IF s.mode = CREATE_NEW
        THEN LET v2 == IF Falsy(s.volumeName) THEN ("volumeName" :> MsgEnterName) ELSE none
                 v3 == IF s.storagePoolType \in poolTypesNotSupportingVolumeCreation
                       THEN ("storagePool" :> MsgNoCreation) ELSE none
             IN  v3 @@ v2 @@ v1
        ELSE IF s.mode = USE_EXISTING
        THEN (IF s.mode # CUSTOM_PATH /\ Falsy(s.existingVolumeName)
              THEN ("existingVolumeName" :> MsgChooseVolume) ELSE none) @@ v1
        ELSE v1

\* validateParams(): field -> message, of this.state = s, when it does not throw
validateParams(s) ==
    LET pool == ("storagePool" :> MsgChoosePool)
        none == [k \in {} |-> ""]
        v1 == IF s.mode # CUSTOM_PATH /\ Falsy(s.storagePoolName) THEN pool ELSE none
    IN  IF s.mode = CREATE_NEW
        THEN LET v2 == IF Falsy(s.volumeName) THEN ("volumeName" :> MsgEnterName) ELSE none
                 v3 == IF s.storagePoolType \in poolTypesNotSupportingVolumeCreation
                       THEN ("storagePool" :> MsgNoCreation) ELSE none
                 poolCapacity == convertToUnit(
                     (CHOOSE p \in storagePools : p.name = s.storagePoolName).capacity, s.unit)
                 v4 == IF s.size > poolCapacity THEN ("size" :> MsgTooLarge) ELSE none
             IN  v4 @@ v3 @@ v2 @@ v1
        ELSE IF s.mode = USE_EXISTING
        THEN (IF s.mode # CUSTOM_PATH /\ Falsy(s.existingVolumeName)
              THEN ("existingVolumeName" :> MsgChooseVolume) ELSE none) @@ v1
        ELSE v1

\* existingVolumeNameDelta(value, poolName)
existingVolumeNameDelta(value, poolName) ==
    LET pool == FindPool({ p \in storagePools : p.connectionName = vm.connectionName }, poolName)
    IN  IF ~Found(pool) THEN [existingVolumeName |-> value]
        ELSE LET own == { vol \in pool.volumes : vol.name = value }
                 hasOwn == /\ pool.type \in {"dir", "fs", "netfs", "gluster", "vstorage"}
                           /\ \E vol \in own : vol.format # UNDEF
             IN  [ existingVolumeName |-> value,
                   format |-> IF hasOwn THEN (CHOOSE vol \in own : TRUE).format
                              ELSE getDefaultVolumeFormat(pool) ]

\* getDefaultVolumeName(poolName)
getDefaultVolumeName(poolName) ==
    LET filteredVolumes == getFilteredVolumes(FindPool(storagePools, poolName), vm.disks)
    IN  IF Len(filteredVolumes) > 0 THEN filteredVolumes[1].name ELSE UNDEF

\* this.setState(delta): without effect once the component is unmounted
SetState(s, delta) == IF open THEN Merge(s, delta) ELSE s

\* dialogErrorSet(text, detail)
dialogErrorSet(s, text, detail) == SetState(s, [dialogError |-> text, dialogErrorDetail |-> detail])

\* the pools of the connection, as onValueChanged looks them up
ConnectionPools == { p \in storagePools : p.connectionName = vm.connectionName }

\* currentPool and prevPool are of different kinds: one 'disk', the other not
FormatEntriesChange(currentPool, prevPool) ==
    /\ Found(currentPool)
    /\ Found(prevPool)
    /\ \/ currentPool.type = "disk" /\ prevPool.type # "disk"
       \/ currentPool.type # "disk" /\ prevPool.type = "disk"

\* onValueChanged('storagePoolName', value) that starts over from the initial state
StoragePoolNameChangedStartsOver(s, value) ==
    SetState(s, [initialState EXCEPT !.storagePoolName = value])

\* onValueChanged('storagePoolName', value): the state after the queued updates
StoragePoolNameChanged(s, value) ==
    LET currentPool == FindPool(ConnectionPools, value)
        prevPool == FindPool(ConnectionPools, s.storagePoolName)
        s1 == SetState(s, [storagePoolName |-> value, storagePoolType |-> currentPool.type])
        s2 == IF FormatEntriesChange(currentPool, prevPool)
              THEN SetState(s1, [format |-> getDefaultVolumeFormat(JsString(value))])
              ELSE s1
    IN  IF s.mode = USE_EXISTING
        THEN SetState(s2, existingVolumeNameDelta(getDefaultVolumeName(value), s2.storagePoolName))
        ELSE s2

\* onValueChanged('existingVolumeName', value)
ExistingVolumeNameChanged(s, value) ==
    SetState(s, existingVolumeNameDelta(value, s.storagePoolName))

\* onValueChanged('mode', value) that sets the mode and resets nothing
ModeChangedKeepsFields(s, value) == SetState(s, [mode |-> value])

\* onValueChanged('mode', value); s is prevState
ModeChanged(s, value) ==
    LET stateDelta == [initialState EXCEPT !.mode = value]
        poolName == stateDelta.storagePoolName
    IN  IF value = USE_EXISTING /\ ~Falsy(poolName)
        THEN SetState(s, Merge(stateDelta,
                 existingVolumeNameDelta(getDefaultVolumeName(poolName), s.storagePoolName)))
        ELSE SetState(s, stateDelta)

\* onValueChanged('busType', value) that keeps the target of the bus before
BusTypeChangedKeepsTarget(s, value) == SetState(s, [busType |-> value])

\* onValueChanged('busType', value)
BusTypeChanged(s, value) ==
    SetState(s, [busType |-> value, target |-> getNextAvailableTarget(existingTargets, value)])

\* onValueChanged('device', value) that never looks at the bus
DeviceChangedKeepsBus(s, value) == SetState(s, [device |-> value])

\* onValueChanged('device', value); the handler reads busType of the state before the
\* queued updates
DeviceChanged(s, value) ==
    LET s1 == SetState(s, [device |-> value])
        same == { disk \in vm.disks : disk.device = value }
    IN  IF same # {}
        THEN BusTypeChanged(s1, (CHOOSE disk \in same : TRUE).bus)
        ELSE IF value = "cdrom" /\ s.busType = "virtio"
        THEN BusTypeChanged(s1, "scsi")
        ELSE s1

\* the paths the user types into the Custom path field
FileValues == {"/x/disk.img", "/x/cd.iso"}

\* value.endsWith(".iso")
EndsWithIso(value) == value \in {"/x/cd.iso", "/iso/boot.iso"}

\* onValueChanged('file', value)
FileChanged(s, value) ==
    SetState(IF EndsWithIso(value) THEN DeviceChanged(s, "cdrom") ELSE s, [file |-> value])

\* onValueChanged(key, value) of the default case
FieldChanged(s, key, value) == SetState(s, (key :> value))

\* the form is displayed and can be edited
FormShown == open /\ ~state.dialogLoading

\* the bus types the Bus selection offers for a disk
supportedDiskBusTypes == {"scsi", "virtio"}

\* the pool options of PoolRow that can be selected in the mode
PoolOptions(s) ==
    { p.name : p \in { q \in storagePools :
        s.mode = CREATE_NEW => q.type \notin poolTypesNotSupportingVolumeCreation } }

\* the volume options of SelectExistingVolume
VolumeOptions(s) ==
    LET vols == getFilteredVolumes(FindPool(storagePools, s.storagePoolName), vm.disks)
    IN  { vols[i].name : i \in 1..Len(vols) }

\* the values of the argument shareable of domainAttachDisk
JsUndefined == [kind |-> "undefined", bool |-> FALSE, items |-> {}]
JsBoolean(b) == [kind |-> "boolean", bool |-> b, items |-> {}]
JsArray(items) == [kind |-> "array", bool |-> FALSE, items |-> items]

\* a value in a condition: an array, the empty one too, is truthy
Truthy(v) == v.kind = "array" \/ (v.kind = "boolean" /\ v.bool)

\* the arguments of an attach/create call the properties are about
CallArgs(type, file, device, format, target, permanent, hotplug, shareable, busType) ==
    [ type |-> type, file |-> file, device |-> device, format |-> format, target |-> target,
      permanent |-> permanent, hotplug |-> hotplug, shareable |-> shareable,
      busType |-> busType ]

NoArgs == CallArgs(UNDEF, UNDEF, UNDEF, UNDEF, UNDEF, FALSE, FALSE, JsUndefined, UNDEF)

\* what ran last: the handler or callback, its key or call, its value or the message of
\* a rejection, the external calls it issued and whether it invoked props.close; args
\* are the arguments of the attach/create call of a click on Add
Event(op, key, value, calls, closed) ==
    [op |-> op, key |-> key, value |-> value, calls |-> calls, closed |-> closed,
     args |-> NoArgs]

\* an edit of the form: onValueChanged(key, value)
Edit(key, value) == Event("onValueChanged", key, value, <<>>, FALSE)

\* what no handler of the form changes: the props of the dialog, and the other dialogs
addDiskEnv == <<storagePools, vm, vms, cancelled, deleteVars, bootVars>>

OnStoragePoolNameChanged(value) ==
    /\ FormShown
    /\ state.mode \in {CREATE_NEW, USE_EXISTING}
    /\ value \in PoolOptions(state)
    /\ value # state.storagePoolName
    /\ state' = StoragePoolNameChanged(state, value)
    /\ last' = Edit("storagePoolName", value)
    /\ UNCHANGED <<addDiskEnv, open, loadCall, chains>>

OnExistingVolumeNameChanged(value) ==
    /\ FormShown
    /\ state.mode = USE_EXISTING
    /\ storagePools # {}
    /\ value \in VolumeOptions(state)
    /\ value # state.existingVolumeName
    /\ state' = ExistingVolumeNameChanged(state, value)
    /\ last' = Edit("existingVolumeName", value)
    /\ UNCHANGED <<addDiskEnv, open, loadCall, chains>>

OnModeChanged(value) ==
    /\ FormShown
    /\ value # state.mode
    /\ state' = ModeChanged(state, value)
    /\ last' = Edit("mode", value)
    /\ UNCHANGED <<addDiskEnv, open, loadCall, chains>>

OnBusTypeChanged(value) ==
    /\ FormShown
    /\ value \in diskBusTypes(state.device) \cap supportedDiskBusTypes
    /\ value # state.busType
    /\ state' = BusTypeChanged(state, value)
    /\ last' = Edit("busType", value)
    /\ UNCHANGED <<addDiskEnv, open, loadCall, chains>>

OnDeviceChanged(value) ==
    /\ FormShown
    /\ state.mode = CUSTOM_PATH
    /\ value # state.device
    /\ state' = DeviceChanged(state, value)
    /\ last' = Edit("device", value)
    /\ UNCHANGED <<addDiskEnv, open, loadCall, chains>>

OnFileChanged(value) ==
    /\ FormShown
    /\ state.mode = CUSTOM_PATH
    /\ value # state.file
    /\ state' = FileChanged(state, value)
    /\ last' = Edit("file", value)
    /\ UNCHANGED <<addDiskEnv, open, loadCall, chains>>

\* an 'Always attach' checkbox that is rendered for a VM that is shut off, too
OnPermanentChangedWhileShutOff(value) ==
    /\ FormShown
    /\ vm.persistent
    /\ value # state.permanent
    /\ state' = FieldChanged(state, "permanent", value)
    /\ last' = Edit("permanent", value)
    /\ UNCHANGED <<addDiskEnv, open, loadCall, chains>>

\* the checkbox 'Always attach' of PermanentChange
OnPermanentChanged(value) ==
    /\ FormShown
    /\ vm.persistent
    /\ domainIsRunning(vm.state)
    /\ value # state.permanent
    /\ state' = FieldChanged(state, "permanent", value)
    /\ last' = Edit("permanent", value)
    /\ UNCHANGED <<addDiskEnv, open, loadCall, chains>>

\* the fields VolumeCreateBody edits through the default case
CreateFieldValues(key) ==
    IF key = "volumeName" THEN {"disk1"}
    ELSE IF key = "size" THEN {1, 2}
    ELSE IF key = "unit" THEN {"MiB", "GiB"}
    ELSE {"qcow2", "raw"}

OnFieldChanged(key, value) ==
    /\ FormShown
    /\ state.mode = CREATE_NEW
    /\ Found(FindPool(storagePools, state.storagePoolName))
    /\ key = "format" => state.storagePoolType \in {"dir", "fs", "netfs", "gluster", "vstorage"}
    /\ value # state[key]
    /\ state' = FieldChanged(state, key, value)
    /\ last' = Edit(key, value)
    /\ UNCHANGED <<addDiskEnv, open, loadCall, chains>>

(***************************************************************************)
(* Submit: onAddClicked and the promise chains it starts.                  *)
(***************************************************************************)
ErrorMessage == "libvirt: operation failed"

\* the message of the TypeError of reading volume.format of an undefined volume
TypeErrorMessage == "volume is undefined"

NoVolume == "no volume"

CreateCall == "storageVolumeCreateAndAttach"
AttachCall == "domainAttachDisk"
UpdateCall == "domainUpdateDiskAttributes"
GetCall == "domainGet"
LoadCall == "storagePoolGetAll"

\* an Add button that is not disabled while the dialog loads
AddEnabledWhileLoading(s) ==
    /\ open
    /\ ~(s.addDiskInProgress \/ (storagePools = {} /\ s.mode # CUSTOM_PATH))

\* the Add button is enabled: isDisabled of the button is false
AddEnabled(s) ==
    /\ open
    /\ ~(s.addDiskInProgress \/ s.dialogLoading \/ (storagePools = {} /\ s.mode # CUSTOM_PATH))

\* onAddClicked that does not look at the result of validateParams
ValidationIgnored(s) == TRUE

\* the validation of onAddClicked passes: the mapping has no own property
ValidationPasses(s) == DOMAIN validateParams(s) = {}

\* a promise chain of onAddClicked: its outstanding calls and what its closure keeps
Chain(call, main, volume, pool, upd, get) ==
    [ call |-> call,        \* the attach/create call of the submit
      main |-> main,        \* that call: pending / resolved
      volume |-> volume,    \* volume.format of the closure, NoVolume for an undefined volume
      pool |-> pool,        \* name of storagePool of the closure
      upd |-> upd,          \* VMs whose domainUpdateDiskAttributes is outstanding
      get |-> get ]         \* domainGet of the chain is outstanding

\* the chain onAddClicked starts (the closure is read by the .then of the call only)
Started(call, volume, pool) == Chain(call, "pending", volume, pool, {}, FALSE)

\* the chain after the .then of its attach/create call ran
Continued(call, upd, get) == Chain(call, "resolved", NoVolume, UNDEF, upd, get)

Outstanding(c) == c.main = "pending" \/ c.upd # {} \/ c.get

\* the bag of chains with chain c replaced by d, dropped when nothing of d is outstanding
Replace(c, d) ==
    IF Outstanding(d) THEN (chains (-) SetToBag({c})) (+) SetToBag({d})
    ELSE chains (-) SetToBag({c})

\* volume of onAddClicked in USE_EXISTING mode
SelectedVolume(s) ==
    LET vmStoragePool == FindPool(storagePools, s.storagePoolName)
        found == { vol \in vmStoragePool.volumes : vol.name = s.existingVolumeName }
    IN  IF found = {} THEN NoVolume ELSE (CHOOSE vol \in found : TRUE).format

\* the arguments of storageVolumeCreateAndAttach
CreateArgs(s) ==
    CallArgs(UNDEF, UNDEF, UNDEF, s.format, s.target, s.permanent, s.hotplug, JsUndefined,
             s.busType)

\* volume && volume.format === "raw" && isVolumeUsed[existingVolumeName]
Shareable(s) ==
    IF s.mode # USE_EXISTING THEN JsUndefined
    ELSE LET vmStoragePool == FindPool(storagePools, s.storagePoolName)
             found == { vol \in vmStoragePool.volumes : vol.name = s.existingVolumeName }
             isVolumeUsed == getStorageVolumesUsage(vms, vmStoragePool)
         IN  IF found = {} THEN JsUndefined
             ELSE IF (CHOOSE vol \in found : TRUE).format # "raw" THEN JsBoolean(FALSE)
             ELSE IF s.existingVolumeName \in DOMAIN isVolumeUsed
             THEN JsArray(isVolumeUsed[s.existingVolumeName])
             ELSE JsUndefined

\* the arguments of domainAttachDisk
AttachArgs(s) ==
    CallArgs(IF s.mode = CUSTOM_PATH THEN "file" ELSE "volume", s.file, s.device,
             IF s.mode # CUSTOM_PATH THEN s.format ELSE "raw", s.target,
             s.permanent, s.hotplug, Shareable(s), s.busType)

\* onAddClicked(): validation fails
OnAddClickedInvalid ==
    /\ AddEnabled(state)
    /\ ~ValidationPasses(state)
    /\ state' = SetState(state, [addDiskInProgress |-> FALSE, validate |-> TRUE])
    /\ last' = Event("onAddClicked", "invalid", "", <<>>, FALSE)
    /\ UNCHANGED <<addDiskEnv, open, loadCall, chains>>

\* onAddClicked() of mode CREATE_NEW without the return: domainAttachDisk is called too
OnAddClickedCreateFallsThrough ==
    /\ AddEnabled(state)
    /\ ValidationPasses(state)
    /\ state.mode = CREATE_NEW
    /\ BagCardinality(chains) < MaxInFlight
    /\ state' = SetState(state, [addDiskInProgress |-> TRUE, validate |-> FALSE])
    /\ chains' = chains (+) SetToBag({Started(CreateCall, NoVolume, UNDEF)})
                       (+) SetToBag({Started(AttachCall, NoVolume, UNDEF)})
    /\ last' = [Event("onAddClicked", state.mode, "", <<CreateCall, AttachCall>>, FALSE)
                    EXCEPT !.args = CreateArgs(state)]
    /\ UNCHANGED <<addDiskEnv, open, loadCall>>

\* onAddClicked(): mode CREATE_NEW, storageVolumeCreateAndAttach is called
OnAddClickedCreate ==
    /\ AddEnabled(state)
    /\ ValidationPasses(state)
    /\ state.mode = CREATE_NEW
    /\ BagCardinality(chains) < MaxInFlight
    /\ state' = SetState(state, [addDiskInProgress |-> TRUE, validate |-> FALSE])
    /\ chains' = chains (+) SetToBag({Started(CreateCall, NoVolume, UNDEF)})
    /\ last' = [Event("onAddClicked", state.mode, "", <<CreateCall>>, FALSE)
                    EXCEPT !.args = CreateArgs(state)]
    /\ UNCHANGED <<addDiskEnv, open, loadCall>>

\* onAddClicked(): mode USE_EXISTING or CUSTOM_PATH, domainAttachDisk is called
OnAddClickedAttach ==
    /\ AddEnabled(state)
    /\ ValidationPasses(state)
    /\ state.mode # CREATE_NEW
    /\ BagCardinality(chains) < MaxInFlight
    /\ chains' = chains (+) SetToBag({
            IF state.mode = USE_EXISTING
            THEN Started(AttachCall, SelectedVolume(state), state.storagePoolName)
            ELSE Started(AttachCall, NoVolume, UNDEF) })
    /\ last' = [Event("onAddClicked", state.mode, "", <<AttachCall>>, FALSE)
                    EXCEPT !.args = AttachArgs(state)]
    /\ UNCHANGED <<addDiskEnv, state, open, loadCall>>

OnAddClicked == OnAddClickedInvalid \/ OnAddClickedCreate \/ OnAddClickedAttach

\* the text of the catch of a chain
FailureText(call) ==
    IF call = CreateCall THEN "Disk failed to be created" ELSE "Disk failed to be attached"

\* a catch that sets the error and leaves addDiskInProgress as it is
CatchChainKeepsBusy(s, call, message) == dialogErrorSet(s, FailureText(call), message)

\* .catch(exc => ...) at the end of a chain
CatchChain(s, call, message) ==
    dialogErrorSet(SetState(s, [addDiskInProgress |-> FALSE]), FailureText(call), message)

Pending(c) == c \in BagToSet(chains) /\ c.main = "pending"

\* a .then of storageVolumeCreateAndAttach that does nothing once the dialog is closed
CreateResolvedIfOpen(c) ==
    /\ Pending(c)
    /\ c.call = CreateCall
    /\ open' = FALSE
    /\ chains' = Replace(c, Continued(CreateCall, {}, open))
    /\ last' = Event("resolved", CreateCall, "", IF open THEN <<GetCall>> ELSE <<>>, open)
    /\ UNCHANGED <<addDiskEnv, state, loadCall>>

\* storageVolumeCreateAndAttach resolves: close(), then domainGet
CreateResolved(c) ==
    /\ Pending(c)
    /\ c.call = CreateCall
    /\ open' = FALSE
    /\ chains' = Replace(c, Continued(CreateCall, {}, TRUE))
    /\ last' = Event("resolved", CreateCall, "", <<GetCall>>, TRUE)
    /\ UNCHANGED <<addDiskEnv, state, loadCall>>

\* isVolumeUsed[this.state.existingVolumeName] in the .then of domainAttachDisk, when the
\* condition before it holds: the VMs to update, and whether the value is defined (truthy)
Updates(c, s) ==
    LET isVolumeUsed == getStorageVolumesUsage(vms, FindPool(storagePools, c.pool))
    IN  IF s.mode # CUSTOM_PATH /\ c.volume = "raw" /\ s.existingVolumeName \in DOMAIN isVolumeUsed
        THEN [defined |-> TRUE, list |-> isVolumeUsed[s.existingVolumeName]]
        ELSE [defined |-> FALSE, list |-> {}]

RECURSIVE Repeat(_, _)
Repeat(x, n) == IF n = 0 THEN <<>> ELSE <<x>> \o Repeat(x, n - 1)

\* domainAttachDisk resolves
AttachResolved(c) ==
    /\ Pending(c)
    /\ c.call = AttachCall
    /\ IF state.mode # CUSTOM_PATH /\ c.volume = NoVolume
       THEN \* volume.format throws, the catch of the chain handles it
            /\ state' = CatchChain(state, AttachCall, TypeErrorMessage)
            /\ chains' = Replace(c, Continued(AttachCall, {}, FALSE))
            /\ last' = Event("resolved", AttachCall, TypeErrorMessage, <<>>, FALSE)
            /\ UNCHANGED open
       ELSE LET u == Updates(c, state)
            IN  /\ chains' = Replace(c, Continued(AttachCall, u.list, TRUE))
                \* Promise.all of no promise resolves at once, otherwise close() is direct
                /\ open' = IF u.list = {} THEN FALSE ELSE open
                /\ last' = Event("resolved", AttachCall, "",
                                 Repeat(UpdateCall, Cardinality(u.list)) \o <<GetCall>>,
                                 u.list = {})
                /\ UNCHANGED state
    /\ UNCHANGED <<addDiskEnv, loadCall>>

\* storageVolumeCreateAndAttach or domainAttachDisk is rejected
MainRejected(c, message) ==
    /\ Pending(c)
    /\ state' = CatchChain(state, c.call, message)
    /\ chains' = Replace(c, Continued(c.call, {}, FALSE))
    /\ last' = Event("rejected", c.call, message, <<>>, FALSE)
    /\ UNCHANGED <<addDiskEnv, open, loadCall>>

\* a domainUpdateDiskAttributes resolves; after the last one Promise.all calls close()
UpdateResolved(c, vmName) ==
    /\ c \in BagToSet(chains)
    /\ vmName \in c.upd
    /\ chains' = Replace(c, [c EXCEPT !.upd = @ \ {vmName}])
    /\ open' = IF c.upd = {vmName} THEN FALSE ELSE open
    /\ last' = Event("resolved", UpdateCall, "", <<>>, c.upd = {vmName})
    /\ UNCHANGED <<addDiskEnv, state, loadCall>>

\* a domainUpdateDiskAttributes is rejected: its own catch sets the error; the promise
\* of the catch resolves, so that after the last one Promise.all calls close()
UpdateRejected(c, vmName, message) ==
    /\ c \in BagToSet(chains)
    /\ vmName \in c.upd
    /\ state' = dialogErrorSet(state, "Disk settings could not be saved", message)
    /\ chains' = Replace(c, [c EXCEPT !.upd = @ \ {vmName}])
    /\ open' = IF c.upd = {vmName} THEN FALSE ELSE open
    /\ last' = Event("rejected", UpdateCall, message, <<>>, c.upd = {vmName})
    /\ UNCHANGED <<addDiskEnv, loadCall>>

\* domainGet of a chain resolves: nothing follows
GetResolved(c) ==
    /\ c \in BagToSet(chains)
    /\ c.get
    /\ chains' = Replace(c, [c EXCEPT !.get = FALSE])
    /\ last' = Event("resolved", GetCall, "", <<>>, FALSE)
    /\ UNCHANGED <<addDiskEnv, state, open, loadCall>>

\* domainGet of a chain is rejected: the rejection reaches the catch of the chain
GetRejected(c, message) ==
    /\ c \in BagToSet(chains)
    /\ c.get
    /\ state' = CatchChain(state, c.call, message)
    /\ chains' = Replace(c, [c EXCEPT !.get = FALSE])
    /\ last' = Event("rejected", GetCall, message, <<>>, FALSE)
    /\ UNCHANGED <<addDiskEnv, open, loadCall>>

\* componentDidMount: storagePoolGetAll resolves
LoadResolved ==
    /\ loadCall = "pending"
    /\ loadCall' = "resolved"
    /\ state' = SetState(state, Merge([dialogLoading |-> FALSE], initialState))
    /\ last' = Event("resolved", LoadCall, "", <<>>, FALSE)
    /\ UNCHANGED <<addDiskEnv, open, chains>>

\* componentDidMount: storagePoolGetAll is rejected
LoadRejected(message) ==
    /\ loadCall = "pending"
    /\ loadCall' = "rejected"
    /\ state' = dialogErrorSet(state, "Storage pools could not be fetched", message)
    /\ last' = Event("rejected", LoadCall, message, <<>>, FALSE)
    /\ UNCHANGED <<addDiskEnv, open, chains>>

\* the Cancel button and onClose of the Modal: props.close
Cancel ==
    /\ open
    /\ open' = FALSE
    /\ cancelled' = TRUE
    /\ last' = Event("cancel", "", "", <<>>, TRUE)
    /\ UNCHANGED <<storagePools, vm, vms, state, loadCall, chains, deleteVars, bootVars>>

\* the Add-disk dialog right after it is mounted
AddDiskInit ==
    /\ \E sc \in Scenarios :
          /\ storagePools = sc.storagePools
          /\ vm = sc.vm
          /\ vms = {sc.vm} \cup sc.others
    /\ state = ConstructedState
    /\ open = TRUE
    /\ cancelled = FALSE
    /\ loadCall = "pending"
    /\ chains = EmptyBag
    /\ last = Event("constructor", "", "", <<LoadCall>>, FALSE)

\* the edits of the form that Spec explores
AddDiskEdits ==
    \/ \E value \in Modes : OnModeChanged(value)
    \/ \E value \in { p.name : p \in PoolCatalogue } : OnStoragePoolNameChanged(value)
    \/ \E value \in { v.name : v \in UNION { p.volumes : p \in PoolCatalogue } } :
            OnExistingVolumeNameChanged(value)
    \/ \E value \in supportedDiskBusTypes : OnBusTypeChanged(value)
    \/ \E key \in {"volumeName", "format"} :
            \E value \in CreateFieldValues(key) : OnFieldChanged(key, value)

\* the other edits of the form: device and path, size and unit, persistence
AddDiskMoreEdits ==
    \/ \E value \in {"disk", "cdrom"} : OnDeviceChanged(value)
    \/ \E value \in FileValues : OnFileChanged(value)
    \/ \E value \in BOOLEAN : OnPermanentChanged(value)
    \/ \E key \in {"size", "unit"} :
            \E value \in CreateFieldValues(key) : OnFieldChanged(key, value)

\* the settlements of the calls of the dialog
AddDiskSettlements ==
    \/ LoadResolved
    \/ LoadRejected(ErrorMessage)
    \/ \E c \in BagToSet(chains) : CreateResolved(c)
    \/ \E c \in BagToSet(chains) : AttachResolved(c)
    \/ \E c \in BagToSet(chains) : MainRejected(c, ErrorMessage)
    \/ \E c \in BagToSet(chains) : \E m \in vms : UpdateResolved(c, m.name)
    \/ \E c \in BagToSet(chains) : \E m \in vms : UpdateRejected(c, m.name, ErrorMessage)
    \/ \E c \in BagToSet(chains) : GetResolved(c)
    \/ \E c \in BagToSet(chains) : GetRejected(c, ErrorMessage)

\* the submits, concurrent ones included, over the edits that decide which call is made
AddDiskNext ==
    \/ AddDiskEdits
    \/ OnAddClicked
    \/ AddDiskSettlements
    \/ Cancel

\* every edit of the form, the user submitting again only once the previous submit
\* has settled
AddDiskFormNext ==
    \/ AddDiskEdits
    \/ AddDiskMoreEdits
    \/ chains = EmptyBag /\ OnAddClicked
    \/ AddDiskSettlements
    \/ Cancel

(***************************************************************************)
(* The storage-pool delete dialog: StoragePoolDelete and                   *)
(* StoragePoolDeleteAction.                                                *)
(***************************************************************************)
VolumeDeleteCall == "storageVolumeDelete"
DeactivateCall == "storagePoolDeactivate"
UndefineCall == "storagePoolUndefine"

\* canDelete(pool, vms): no disk of a VM names the pool in its source
canDelete(pool, allVms) == ~\E m \in allVms : \E disk \in m.disks : disk.pool = pool.name

\* canDeleteOnlyWithoutVolumes(pool, vms): a volume of the pool is used as a disk
canDeleteOnlyWithoutVolumes(pool, allVms) ==
    /\ canDelete(pool, allVms)
    /\ LET isVolumeUsed == getStorageVolumesUsage(allVms, pool)
       IN  \E property \in DOMAIN isVolumeUsed : Cardinality(isVolumeUsed[property]) > 0

\* a Delete item that looks at the persistence of the pool only
DeleteActionEnabledForUsedPool(pool, allVms) == pool.persistent

\* the Delete item of the pool's menu opens the dialog
DeleteActionEnabled(pool, allVms) == canDelete(pool, allVms) /\ pool.persistent

\* a Delete button that is enabled whatever the dialog shows
DeleteEnabledAlways == deleteOpen

\* the Delete button of the dialog is enabled
DeleteEnabled ==
    /\ deleteOpen
    /\ ~(canDeleteOnlyWithoutVolumes(storagePool, deleteVms) /\ deleteState.deleteVolumes)

\* the pool once it is inactive: the store lists no volumes for it
Inactive(pool) == [pool EXCEPT !.volumes = {}]

\* a pool as the delete dialog gets it
DeletePool(pool, active, persistent) ==
    Merge(pool, [active |-> active, persistent |-> persistent])

\* a VM that uses the volume v1 of pool a by its path only
UserOfFile(n) == Vm(n, "running", { Disk("vda", "disk", "virtio", "file", "/a/v1", UNDEF, UNDEF) })

DeleteScenario(pool, allVms) == [storagePool |-> pool, vms |-> allVms]

\* the pools the Delete item is rendered for, and the VMs of the host
DeleteScenarios ==
    { DeleteScenario(DeletePool(PoolA, TRUE, TRUE), {}),
      DeleteScenario(DeletePool(PoolA, TRUE, TRUE), {UserOfFile("vm1")}),
      DeleteScenario(DeletePool(PoolA, TRUE, TRUE), {UserOfV2("vm2")}),
      DeleteScenario(DeletePool(Inactive(PoolA), FALSE, TRUE), {}),
      DeleteScenario(DeletePool(PoolC, TRUE, TRUE), {}),
      DeleteScenario(DeletePool(PoolC, TRUE, FALSE), {}) }

\* the state the constructor of StoragePoolDelete sets
DeleteConstructedState ==
    [deleteVolumes |-> FALSE, dialogError |-> UNDEF, dialogErrorDetail |-> UNDEF]

\* this.setState(delta) of StoragePoolDelete
DeleteSetState(s, delta) == IF deleteOpen THEN Merge(s, delta) ELSE s

DeleteErrorText == "The storage pool could not be deleted"

\* a promise chain of delete(): stage is the call(s) of the chain that are outstanding,
\* pending the volumes whose storageVolumeDelete is outstanding, failed whether
\* Promise.all was rejected already, active the storagePool.active of the pool the
\* click captured, kept while storagePoolDeactivateAndUndefine is still to be called
DeleteChain(stage, pending, failed, active) ==
    [stage |-> stage, pending |-> pending, failed |-> failed, active |-> active]

DeleteReplace(c, d) ==
    IF d.stage = "done"
    THEN deleteChains (-) SetToBag({c})
    ELSE (deleteChains (-) SetToBag({c})) (+) SetToBag({d})

\* a storagePoolDeactivateAndUndefine that deactivates whatever the pool is
DeactivateAndUndefineAlways(active) == DeactivateCall

\* the first call of storagePoolDeactivateAndUndefine(storagePool)
DeactivateAndUndefine(active) == IF active THEN DeactivateCall ELSE UndefineCall

\* the Delete item of the menu is clicked: the dialog is mounted
DeleteDialogOpened ==
    /\ ~deleteOpen
    /\ deleteLast.op = "none"
    /\ DeleteActionEnabled(storagePool, deleteVms)
    /\ deleteOpen' = TRUE
    /\ deleteState' = DeleteConstructedState
    /\ deleteLast' = Event("constructor", "", "", <<>>, FALSE)
    /\ UNCHANGED <<addDiskVars, bootVars, storagePool, deleteVms, deleteChains>>

\* the checkbox 'Delete the volumes inside this pool'
OnDeleteVolumesChanged(value) ==
    /\ deleteOpen
    /\ storagePool.active
    /\ storagePool.volumes # {}
    /\ value # deleteState.deleteVolumes
    /\ deleteState' = DeleteSetState(deleteState, [deleteVolumes |-> value])
    /\ deleteLast' = Event("onValueChanged", "deleteVolumes", value, <<>>, FALSE)
    /\ UNCHANGED <<addDiskVars, bootVars, storagePool, deleteVms, deleteOpen, deleteChains>>

\* delete(): the Delete button is clicked
DeleteClicked ==
    /\ DeleteEnabled
    /\ BagCardinality(deleteChains) < MaxInFlight
    /\ IF deleteState.deleteVolumes /\ Cardinality(storagePool.volumes) > 0
       THEN /\ deleteChains' = deleteChains (+) SetToBag({
                    DeleteChain("volumes", { v.name : v \in storagePool.volumes }, FALSE,
                                storagePool.active) })
            /\ deleteLast' = Event("delete", "volumes", "",
                    Repeat(VolumeDeleteCall, Cardinality(storagePool.volumes)), FALSE)
       ELSE /\ deleteChains' = deleteChains (+) SetToBag({
                    DeleteChain(DeactivateAndUndefine(storagePool.active), {}, FALSE, FALSE) })
            /\ deleteLast' = Event("delete", "pool", "",
                    <<DeactivateAndUndefine(storagePool.active)>>, FALSE)
    /\ UNCHANGED <<addDiskVars, bootVars, storagePool, deleteVms, deleteState, deleteOpen>>

\* a storageVolumeDelete resolves; after the last one, unless one was rejected,
\* storagePoolDeactivateAndUndefine is called
VolumeDeleteResolved(c, volName) ==
    /\ c \in BagToSet(deleteChains)
    /\ c.stage = "volumes"
    /\ volName \in c.pending
    /\ IF c.pending = {volName}
       THEN IF c.failed
            THEN /\ deleteChains' = DeleteReplace(c, DeleteChain("done", {}, TRUE, FALSE))
                 /\ deleteLast' = Event("resolved", VolumeDeleteCall, "", <<>>, FALSE)
            ELSE /\ deleteChains' = DeleteReplace(c,
                        DeleteChain(DeactivateAndUndefine(c.active), {}, FALSE, FALSE))
                 /\ deleteLast' = Event("resolved", VolumeDeleteCall, "",
                                        <<DeactivateAndUndefine(c.active)>>, FALSE)
       ELSE /\ deleteChains' = DeleteReplace(c, [c EXCEPT !.pending = @ \ {volName}])
            /\ deleteLast' = Event("resolved", VolumeDeleteCall, "", <<>>, FALSE)
    /\ UNCHANGED <<addDiskVars, bootVars, storagePool, deleteVms, deleteState, deleteOpen>>

\* a storageVolumeDelete is rejected: the first rejection rejects Promise.all, whose
\* rejection the second argument of the last then handles
VolumeDeleteRejected(c, volName, message) ==
    /\ c \in BagToSet(deleteChains)
    /\ c.stage = "volumes"
    /\ volName \in c.pending
    /\ deleteState' = IF c.failed THEN deleteState
                      ELSE DeleteSetState(deleteState,
                              [dialogError |-> DeleteErrorText, dialogErrorDetail |-> message])
    /\ deleteChains' = DeleteReplace(c,
            IF c.pending = {volName} THEN DeleteChain("done", {}, TRUE, FALSE)
            ELSE [c EXCEPT !.pending = @ \ {volName}, !.failed = TRUE])
    /\ deleteLast' = Event("rejected", VolumeDeleteCall, message, <<>>, FALSE)
    /\ UNCHANGED <<addDiskVars, bootVars, storagePool, deleteVms, deleteOpen>>

\* storagePoolDeactivate resolves: storagePoolUndefine is called
DeactivateResolved(c) ==
    /\ c \in BagToSet(deleteChains)
    /\ c.stage = DeactivateCall
    /\ deleteChains' = DeleteReplace(c, DeleteChain(UndefineCall, {}, FALSE, FALSE))
    /\ deleteLast' = Event("resolved", DeactivateCall, "", <<UndefineCall>>, FALSE)
    /\ UNCHANGED <<addDiskVars, bootVars, storagePool, deleteVms, deleteState, deleteOpen>>

\* storagePoolUndefine resolves: the then returns props.close and does not call it
UndefineResolved(c) ==
    /\ c \in BagToSet(deleteChains)
    /\ c.stage = UndefineCall
    /\ deleteChains' = DeleteReplace(c, DeleteChain("done", {}, FALSE, FALSE))
    /\ deleteLast' = Event("resolved", UndefineCall, "", <<>>, FALSE)
    /\ UNCHANGED <<addDiskVars, bootVars, storagePool, deleteVms, deleteState, deleteOpen>>

\* storagePoolDeactivate or storagePoolUndefine is rejected
PoolCallRejected(c, message) ==
    /\ c \in BagToSet(deleteChains)
    /\ c.stage \in {DeactivateCall, UndefineCall}
    /\ deleteState' = DeleteSetState(deleteState,
            [dialogError |-> DeleteErrorText, dialogErrorDetail |-> message])
    /\ deleteChains' = DeleteReplace(c, DeleteChain("done", {}, TRUE, FALSE))
    /\ deleteLast' = Event("rejected", c.stage, message, <<>>, FALSE)
    /\ UNCHANGED <<addDiskVars, bootVars, storagePool, deleteVms, deleteOpen>>

\* the pool is deactivated, by a storagePoolDeactivate of the dialog or by someone
\* else, and the store passes the inactive pool to the dialog
PoolDeactivated ==
    /\ storagePool.active
    /\ storagePool' = DeletePool(Inactive(storagePool), FALSE, storagePool.persistent)
    /\ UNCHANGED <<addDiskVars, bootVars, deleteVms, deleteState, deleteOpen, deleteChains, deleteLast>>

\* the Cancel button and onClose of the Modal of the delete dialog
DeleteCancel ==
    /\ deleteOpen
    /\ deleteOpen' = FALSE
    /\ deleteLast' = Event("cancel", "", "", <<>>, TRUE)
    /\ UNCHANGED <<addDiskVars, bootVars, storagePool, deleteVms, deleteState, deleteChains>>

\* the page with the Delete item of a pool, the dialog not yet shown
PoolDeleteInit ==
    /\ \E sc \in DeleteScenarios :
          /\ storagePool = sc.storagePool
          /\ deleteVms = sc.vms
    /\ deleteState = DeleteConstructedState
    /\ deleteOpen = FALSE
    /\ deleteChains = EmptyBag
    /\ deleteLast = Event("none", "", "", <<>>, FALSE)

PoolDeleteNext ==
    \/ DeleteDialogOpened
    \/ \E value \in BOOLEAN : OnDeleteVolumesChanged(value)
    \/ DeleteClicked
    \/ \E c \in BagToSet(deleteChains) : \E v \in c.pending : VolumeDeleteResolved(c, v)
    \/ \E c \in BagToSet(deleteChains) : \E v \in c.pending :
            VolumeDeleteRejected(c, v, ErrorMessage)
    \/ \E c \in BagToSet(deleteChains) : DeactivateResolved(c)
    \/ \E c \in BagToSet(deleteChains) : UndefineResolved(c)
    \/ \E c \in BagToSet(deleteChains) : PoolCallRejected(c, ErrorMessage)
    \/ PoolDeactivated
    \/ DeleteCancel

(***************************************************************************)
(* The boot-order dialog: BootOrderLink and BootOrderModal.                *)
(***************************************************************************)
ChangeBootOrderCall == "domainChangeBootOrder"

\* a device of the inactive XML that can be given a boot order
BootDevice(name, bootOrder) == [name |-> name, bootOrder |-> bootOrder]

\* getSortedBootOrderDevices(vm.inactiveXML): the devices with a boot order first, by
\* their order, then the others
SortedBootOrderDevices ==
    << BootDevice("disk", "1"), BootDevice("network", "2"), BootDevice("cdrom", UNDEF) >>

\* the VM of the overview page
BootVm(st) == [state |-> st, inactiveXML |-> SortedBootOrderDevices]

\* getUIBootOrderDevices(vm)
getUIBootOrderDevices(m) ==
    [ i \in DOMAIN m.inactiveXML |->
        [name |-> m.inactiveXML[i].name, checked |-> m.inactiveXML[i].bootOrder # UNDEF] ]

\* the state the constructor of BootOrderModal sets
BootConstructedState ==
    [devices |-> getUIBootOrderDevices(bootVm), dialogError |-> UNDEF, dialogErrorDetail |-> UNDEF]

\* this.setState(delta) of BootOrderModal
BootSetState(s, delta) == IF bootOrderShow THEN Merge(s, delta) ELSE s

\* devices with the entries at index and index + direction exchanged
Moved(devices, index, direction) ==
    [devices EXCEPT ![index + direction] = devices[index], ![index] = devices[index + direction]]

\* this.state.devices.filter(device => device.checked), by name
CheckedDevices(devices) == SelectSeq(devices, LAMBDA device : device.checked)

\* the handler or promise callback of the boot-order dialog that ran, the calls it issued,
\* the state of the VM then and the devices a domainChangeBootOrder was given
BootEvent(op, calls, vmState, devices) ==
    [op |-> op, calls |-> calls, vmState |-> vmState, devices |-> devices]

\* the 'edit' button of BootOrderLink can be clicked
BootOrderEditEnabled == ~bootOrderShow /\ ~(bootVm.state # "shut off")

\* the VM is started or shut off while the overview page is shown
BootVmStateChanged(st) ==
    /\ st # bootVm.state
    /\ bootVm' = [bootVm EXCEPT !.state = st]
    /\ UNCHANGED <<addDiskVars, deleteVars, bootOrderShow, bootState, bootChains, bootLast>>

\* the 'edit' button: setBootOrderShow, BootOrderModal is mounted
BootOrderEditClicked ==
    /\ BootOrderEditEnabled
    /\ bootOrderShow' = TRUE
    /\ bootState' = BootConstructedState
    /\ bootLast' = BootEvent("constructor", <<>>, bootVm.state, <<>>)
    /\ UNCHANGED <<addDiskVars, deleteVars, bootVm, bootChains>>

\* onToggleDevice(device)
OnToggleDevice(index) ==
    /\ bootOrderShow
    /\ index \in DOMAIN bootState.devices
    /\ bootState' = BootSetState(bootState,
            [devices |-> [bootState.devices EXCEPT ![index].checked = ~@]])
    /\ bootLast' = BootEvent("onToggleDevice", <<>>, bootVm.state, <<>>)
    /\ UNCHANGED <<addDiskVars, deleteVars, bootVm, bootOrderShow, bootChains>>

\* moveUp(device), the up arrow being enabled
MoveUp(index) ==
    /\ bootOrderShow
    /\ index \in DOMAIN bootState.devices
    /\ ~(index = 1 \/ ~bootState.devices[index].checked)
    /\ bootState' = BootSetState(bootState, [devices |-> Moved(bootState.devices, index, -1)])
    /\ bootLast' = BootEvent("moveUp", <<>>, bootVm.state, <<>>)
    /\ UNCHANGED <<addDiskVars, deleteVars, bootVm, bootOrderShow, bootChains>>

\* moveDown(device), the down arrow being enabled
MoveDown(index) ==
    /\ bootOrderShow
    /\ index \in DOMAIN bootState.devices
    /\ ~(index = Len(bootState.devices) \/ ~bootState.devices[index + 1].checked)
    /\ bootState' = BootSetState(bootState, [devices |-> Moved(bootState.devices, index, 1)])
    /\ bootLast' = BootEvent("moveDown", <<>>, bootVm.state, <<>>)
    /\ UNCHANGED <<addDiskVars, deleteVars, bootVm, bootOrderShow, bootChains>>

\* save(): the Save button is clicked
BootOrderSave ==
    /\ bootOrderShow
    /\ BagCardinality(bootChains) < MaxInFlight
    /\ bootChains' = bootChains (+) SetToBag({ChangeBootOrderCall})
    /\ bootLast' = BootEvent("save", <<ChangeBootOrderCall>>, bootVm.state,
                              CheckedDevices(bootState.devices))
    /\ UNCHANGED <<addDiskVars, deleteVars, bootVm, bootOrderShow, bootState>>

\* domainChangeBootOrder resolves: domainGet is called and the dialog is closed
BootOrderSaveResolved ==
    /\ BagIn(ChangeBootOrderCall, bootChains)
    /\ bootChains' = bootChains (-) SetToBag({ChangeBootOrderCall})
    /\ bootOrderShow' = FALSE
    /\ bootLast' = BootEvent("resolved", <<GetCall>>, bootVm.state, <<>>)
    /\ UNCHANGED <<addDiskVars, deleteVars, bootVm, bootState>>

\* domainChangeBootOrder is rejected: dialogErrorSet
BootOrderSaveRejected(message) ==
    /\ BagIn(ChangeBootOrderCall, bootChains)
    /\ bootChains' = bootChains (-) SetToBag({ChangeBootOrderCall})
    /\ bootState' = BootSetState(bootState,
            [dialogError |-> "Boot order settings could not be saved", dialogErrorDetail |-> message])
    /\ bootLast' = BootEvent("rejected", <<>>, bootVm.state, <<>>)
    /\ UNCHANGED <<addDiskVars, deleteVars, bootVm, bootOrderShow>>

\* the Cancel button and onClose of the Modal of the boot-order dialog
BootOrderCancel ==
    /\ bootOrderShow
    /\ bootOrderShow' = FALSE
    /\ bootLast' = BootEvent("cancel", <<>>, bootVm.state, <<>>)
    /\ UNCHANGED <<addDiskVars, deleteVars, bootVm, bootState, bootChains>>

\* the overview page of a VM, the boot-order dialog not yet shown
BootOrderInit ==
    /\ \E st \in {"shut off", "running"} : bootVm = BootVm(st)
    /\ bootOrderShow = FALSE
    /\ bootState = BootConstructedState
    /\ bootChains = EmptyBag
    /\ bootLast = BootEvent("none", <<>>, bootVm.state, <<>>)

BootOrderNext ==
    \/ \E st \in {"shut off", "running"} : BootVmStateChanged(st)
    \/ BootOrderEditClicked
    \/ \E index \in DOMAIN bootState.devices : OnToggleDevice(index)
    \/ \E index \in DOMAIN bootState.devices : MoveUp(index)
    \/ \E index \in DOMAIN bootState.devices : MoveDown(index)
    \/ BootOrderSave
    \/ BootOrderSaveResolved
    \/ BootOrderSaveRejected(ErrorMessage)
    \/ BootOrderCancel

\* no boot order is being edited
BootOrderIdle ==
    /\ bootVm = BootVm("shut off")
    /\ bootOrderShow = FALSE
    /\ bootState = BootConstructedState
    /\ bootChains = EmptyBag
    /\ bootLast = BootEvent("none", <<>>, "shut off", <<>>)

\* no pool is being deleted
PoolDeleteIdle ==
    /\ storagePool = DeletePool(PoolC, TRUE, FALSE)
    /\ deleteVms = {}
    /\ deleteState = DeleteConstructedState
    /\ deleteOpen = FALSE
    /\ deleteChains = EmptyBag
    /\ deleteLast = Event("none", "", "", <<>>, FALSE)

\* no disk is being added
AddDiskIdle ==
    /\ storagePools = {}
    /\ vm = Vm("vm1", "shut off", {})
    /\ vms = {}
    /\ state = ConstructedState
    /\ open = FALSE
    /\ cancelled = FALSE
    /\ loadCall = "none"
    /\ chains = EmptyBag
    /\ last = Event("none", "", "", <<>>, FALSE)

\* the Add-disk dialog
Init == AddDiskInit /\ PoolDeleteIdle /\ BootOrderIdle

Next == AddDiskNext

Spec == Init /\ [][Next]_vars

\* the Add-disk dialog with every field of the form edited
NextForm == AddDiskFormNext

SpecForm == Init /\ [][NextForm]_vars

\* the storage-pool delete dialog
InitPoolDelete == AddDiskIdle /\ PoolDeleteInit /\ BootOrderIdle

NextPoolDelete == PoolDeleteNext

SpecPoolDelete == InitPoolDelete /\ [][NextPoolDelete]_vars

\* the boot-order dialog
InitBootOrder == AddDiskIdle /\ PoolDeleteIdle /\ BootOrderInit

SpecBootOrder == InitBootOrder /\ [][BootOrderNext]_vars

(***************************************************************************)
(* Properties of the Add-disk dialog.                                      *)
(***************************************************************************)
\* a step of the handler or callback (op, key)
Ran(op, key) == last'.op = op /\ last'.key = key

\* the first step of a promise chain settles: its attach/create call
MainSettles(op) == last'.op = op /\ last'.key \in {CreateCall, AttachCall}

\* the number of attach/create calls that are outstanding
OutstandingMainCalls ==
    BagCardinality([c \in { d \in BagToSet(chains) : d.main = "pending" } |-> CopiesIn(c, chains)])

\* the pool named n
PoolNamed(n) == CHOOSE p \in storagePools : p.name = n

\* the first pool by name
FirstPool == CHOOSE p \in storagePools : \A q \in storagePools : Rank(p.name) <= Rank(q.name)

\* a disk of the VM has the volume as its source, by file or by volume name
UsedByVm(volume) ==
    \E d \in vm.disks :
        \/ d.file # UNDEF /\ d.file \in {volume.path, volume.name}
        \/ d.volume # UNDEF /\ d.volume \in {volume.path, volume.name}

\* the name of the first volume of the pool, by name, that no disk of the VM uses
FirstAvailableVolume(pool) ==
    LET free == { v \in pool.volumes : ~UsedByVm(v) }
    IN  IF free = {} THEN UNDEF
        ELSE (CHOOSE v \in free : \A w \in free : Rank(v.name) <= Rank(w.name)).name

\* the format of the volume named n as pool describes it: its own format in a pool of
\* files, the default format of the pool otherwise
FormatIn(pool, n) ==
    LET own == { v \in pool.volumes : v.name = n /\ v.format # UNDEF }
    IN  IF pool.type \in {"dir", "fs", "netfs", "gluster", "vstorage"} /\ own # {}
        THEN (CHOOSE v \in own : TRUE).format
        ELSE getDefaultVolumeFormat(pool)

\* the fields of the form the user fills in
FormFields(s) ==
    <<s.mode, s.storagePoolName, s.existingVolumeName, s.volumeName, s.size, s.unit,
      s.format, s.target, s.busType, s.file, s.device, s.cacheMode, s.permanent>>

\* C1: onAddClicked issues an attach/create call only when validateParams of the current
\* state is the empty mapping; when the mapping is not empty it issues no call, validate
\* becomes true and addDiskInProgress is false.
C1_CallOnlyWhenValid ==
    [][ (last'.op = "onAddClicked" /\ DOMAIN validateParams(state) # {}) =>
            /\ last'.calls = <<>>
            /\ chains' = chains
            /\ state'.validate
            /\ ~state'.addDiskInProgress ]_vars

\* C1: an Add click with a missing field: nothing was called and validation is displayed
C1_Witness ==
    /\ last.op = "onAddClicked"
    /\ last.key = "invalid"
    /\ DOMAIN validateParams(state) # {}
    /\ state.validate
    /\ chains = EmptyBag

\* C2: at most one attach/create call (storageVolumeCreateAndAttach or domainAttachDisk)
\* of the dialog is outstanding at any time.
C2_AtMostOneOutstanding == OutstandingMainCalls <= 1

\* C3: a submit whose validation succeeds issues exactly one attach/create call:
\* storageVolumeCreateAndAttach in create-new mode, domainAttachDisk in the other modes.
C3_ExactlyOneCall ==
    [][ (last'.op = "onAddClicked" /\ DOMAIN validateParams(state) = {}) =>
            LET call == IF state.mode = CREATE_NEW THEN CreateCall ELSE AttachCall
            IN  /\ last'.calls = <<call>>
                /\ \E c \in BagToSet(chains') :
                      /\ c.call = call
                      /\ c.main = "pending"
                      /\ chains' = chains (+) SetToBag({c}) ]_vars

\* C3: a valid submit of create-new mode has called storageVolumeCreateAndAttach
C3_Witness ==
    /\ last.op = "onAddClicked"
    /\ last.key = CREATE_NEW
    /\ last.calls = <<CreateCall>>
    /\ state.addDiskInProgress
    /\ OutstandingMainCalls = 1

\* C4: when the attach/create call is rejected while the dialog is shown, the error is
\* set with the message of the rejection as its detail, addDiskInProgress is false,
\* close is not invoked and the fields of the form are unchanged.
C4_RejectionReenablesForm ==
    [][ (open /\ MainSettles("rejected")) =>
            /\ state'.dialogError =
                  (IF last'.key = CreateCall THEN "Disk failed to be created"
                   ELSE "Disk failed to be attached")
            /\ state'.dialogErrorDetail = last'.value
            /\ ~state'.addDiskInProgress
            /\ ~last'.closed
            /\ open'
            /\ FormFields(state') = FormFields(state) ]_vars

\* C4: storageVolumeCreateAndAttach was rejected and the form can be submitted again
C4_Witness ==
    /\ last.op = "rejected"
    /\ last.key = CreateCall
    /\ open
    /\ state.dialogErrorDetail = ErrorMessage
    /\ AddEnabled(state)

C6_RejectionDisplayed ==
    [][ (open /\ last'.op = "rejected") =>
            /\ open'
            /\ state'.dialogError # UNDEF
            /\ state'.dialogErrorDetail = last'.value ]_vars

\* C7: once an external call of a dialog was rejected, the dialog issues no persistence
\* call (attach, create, delete, deactivate, undefine, change boot order) until the
\* user clicks the dialog's action button again; here for the storage-pool delete
\* dialog: the step after a rejection issues a call only if it is a click on Delete.
C7_NoCallAfterRejectionWithoutClick ==
    [][ (deleteLast.op = "rejected" /\ deleteLast'.op # "delete")
            => deleteLast'.calls = <<>> ]_vars

\* C7 for the Add-disk dialog: the step after a rejection issues an attach or create
\* call only if it is a click on Add.
C7_AddDiskNoCallAfterRejectionWithoutClick ==
    [][ (last.op = "rejected" /\ last'.op # "onAddClicked")
            => \A i \in DOMAIN last'.calls : last'.calls[i] \notin {CreateCall, AttachCall} ]_vars

\* C8: after onValueChanged('mode', m) volumeName is undefined, target is the next
\* available target of bus virtio, format is the default format of the first pool by
\* name, and existingVolumeName is undefined unless m is use-existing, where it is the
\* first available volume of that pool.
C8_ModeSwitchResets ==
    [][ Ran("onValueChanged", "mode") =>
            /\ state'.mode = last'.value
            /\ state'.volumeName = UNDEF
            /\ state'.target = getNextAvailableTarget({ d.target : d \in vm.disks }, "virtio")
            /\ state'.format =
                  (IF storagePools = {} THEN UNDEF ELSE getDefaultVolumeFormat(FirstPool))
            /\ state'.existingVolumeName =
                  (IF last'.value = USE_EXISTING /\ storagePools # {}
                   THEN FirstAvailableVolume(FirstPool) ELSE UNDEF) ]_vars

\* C8 as amended: as C8, but when m is use-existing the format is the one of the first
\* available volume of the first pool as the pool selected before the switch describes
\* a volume of that name.
C8_ModeSwitchResetsFormatOfVolume ==
    [][ Ran("onValueChanged", "mode") =>
            /\ state'.mode = last'.value
            /\ state'.volumeName = UNDEF
            /\ state'.target = getNextAvailableTarget({ d.target : d \in vm.disks }, "virtio")
            /\ state'.format =
                  (IF storagePools = {} THEN UNDEF
                   ELSE IF last'.value = USE_EXISTING
                   THEN FormatIn(PoolNamed(state.storagePoolName), FirstAvailableVolume(FirstPool))
                   ELSE getDefaultVolumeFormat(FirstPool))
            /\ state'.existingVolumeName =
                  (IF last'.value = USE_EXISTING /\ storagePools # {}
                   THEN FirstAvailableVolume(FirstPool) ELSE UNDEF) ]_vars

\* C8: the mode was switched to use-existing, a volume is selected and the format is
\* not the default format of the first pool
C8_Witness ==
    /\ last.op = "onValueChanged"
    /\ last.key = "mode"
    /\ state.mode = USE_EXISTING
    /\ state.existingVolumeName # UNDEF
    /\ state.volumeName = UNDEF
    /\ state.format # getDefaultVolumeFormat(FirstPool)

\* C9: in create-new mode, after onValueChanged('storagePoolName', p) storagePoolName is
\* p, storagePoolType is the type of p, and format is getDefaultVolumeFormat of pool p
\* when exactly one of p and the pool selected before is of type 'disk', and the
\* previous format otherwise.
C9_PoolSwitchRederivesFormat ==
    [][ (Ran("onValueChanged", "storagePoolName") /\ state.mode = CREATE_NEW) =>
            LET p == PoolNamed(last'.value)
                prev == PoolNamed(state.storagePoolName)
            IN  /\ state'.storagePoolName = p.name
                /\ state'.storagePoolType = p.type
                /\ state'.format =
                      (IF (p.type = "disk") # (prev.type = "disk")
                       THEN getDefaultVolumeFormat(p) ELSE state.format) ]_vars

\* C10: in use-existing mode, after onValueChanged('storagePoolName', p)
\* existingVolumeName is the first volume of p, by name, that no disk of the VM uses,
\* and undefined when p has no such volume.
C10_PoolSwitchRederivesVolume ==
    [][ (Ran("onValueChanged", "storagePoolName") /\ state.mode = USE_EXISTING) =>
            /\ state'.storagePoolName = last'.value
            /\ state'.existingVolumeName = FirstAvailableVolume(PoolNamed(last'.value)) ]_vars

\* C10: the pool was switched in use-existing mode and the volume selected is not the
\* first of the pool, which a disk of the VM uses
C10_Witness ==
    /\ last.op = "onValueChanged"
    /\ last.key = "storagePoolName"
    /\ state.mode = USE_EXISTING
    /\ state.existingVolumeName # UNDEF
    /\ \E v \in PoolNamed(state.storagePoolName).volumes :
          UsedByVm(v) /\ Rank(v.name) < Rank(state.existingVolumeName)

\* C11: in every state of the loaded form the target is the next available target of
\* the bus type selected, for the disks the VM has.
C11_TargetFollowsBusType ==
    ~state.dialogLoading =>
        state.target = getNextAvailableTarget({ d.target : d \in vm.disks }, state.busType)

\* C11: the bus was switched away from virtio on a VM that has a disk on the new bus,
\* and the target is the second device name of that bus
C11_Witness ==
    /\ last.op = "onValueChanged"
    /\ last.key = "busType"
    /\ state.busType = "scsi"
    /\ "sda" \in { d.target : d \in vm.disks }
    /\ state.target = "sdb"

\* C12: after onValueChanged('device', 'cdrom') in a state with busType virtio, device
\* is cdrom, busType is scsi and target is the next available target of scsi.
C12_CdromSwitchesToScsi ==
    [][ (Ran("onValueChanged", "device") /\ last'.value = "cdrom" /\ state.busType = "virtio") =>
            /\ state'.device = "cdrom"
            /\ state'.busType = "scsi"
            /\ state'.target = getNextAvailableTarget({ d.target : d \in vm.disks }, "scsi") ]_vars

\* C12 as amended: after onValueChanged('device', 'cdrom') in a state with busType
\* virtio, device is cdrom and busType is the bus of a cdrom the VM already has, or
\* scsi when it has none; target is the next available target of that bus.
C12_CdromLeavesVirtio ==
    [][ (Ran("onValueChanged", "device") /\ last'.value = "cdrom" /\ state.busType = "virtio") =>
            LET cdroms == { d \in vm.disks : d.device = "cdrom" }
                bus == IF cdroms = {} THEN "scsi" ELSE state'.busType
            IN  /\ state'.device = "cdrom"
                /\ cdroms # {} => \E d \in cdroms : d.bus = state'.busType
                /\ state'.busType = bus
                /\ state'.target = getNextAvailableTarget({ d.target : d \in vm.disks }, bus) ]_vars

\* C12: cdrom was selected on a VM without a cdrom while the bus was virtio
C12_Witness ==
    /\ last.op = "onValueChanged"
    /\ last.key = "device"
    /\ { d \in vm.disks : d.device = "cdrom" } = {}
    /\ state.device = "cdrom"
    /\ state.busType = "scsi"
    /\ state.target = "sda"

\* C13: validateParams reports a storagePool error whenever no storage pool is selected
\* and the mode is create-new or use-existing, and never reports one in custom-path mode.
C13_StoragePoolErrorReported ==
    ~state.dialogLoading =>
        /\ (state.mode \in {CREATE_NEW, USE_EXISTING} /\ Falsy(state.storagePoolName)) =>
                /\ ~validateParamsThrows(state)
                /\ "storagePool" \in DOMAIN validateParams(state)
        /\ state.mode = CUSTOM_PATH => "storagePool" \notin DOMAIN validateParams(state)

\* C14: in create-new mode validateParams reports a size error exactly when the size, in
\* the unit selected, is greater than the capacity of the pool selected, and a click on
\* Add with such a size issues no call.
C14_SizeWithinCapacity ==
    [][ (~state.dialogLoading /\ state.mode = CREATE_NEW /\ ~validateParamsThrows(state)) =>
            LET capacity == PoolNamed(state.storagePoolName).capacity
                \* size * UnitBytes(unit) > capacity, for a whole size
                exceeds == state.size > capacity \div UnitBytes(state.unit)
            IN  /\ ("size" \in DOMAIN validateParams(state)) <=> exceeds
                /\ (exceeds /\ last'.op = "onAddClicked") =>
                        (last'.calls = <<>> /\ chains' = chains) ]_vars

\* C14: Add was clicked with a name and a size of 2 GiB for a pool of less, and the
\* size is the only error
C14_Witness ==
    /\ last.op = "onAddClicked"
    /\ last.key = "invalid"
    /\ state.mode = CREATE_NEW
    /\ state.size = 2
    /\ state.unit = "GiB"
    /\ DOMAIN validateParams(state) = {"size"}
    /\ chains = EmptyBag

\* C15: whenever the form is displayed (dialogLoading is false) the mode is one of
\* create-new, use-existing and custom-path, and only onValueChanged('mode', m) changes
\* the mode of the displayed form.
C15_ExactlyOneMode ==
    [][ /\ ~state'.dialogLoading => state'.mode \in Modes
        /\ (~state.dialogLoading /\ state'.mode # state.mode) =>
                (Ran("onValueChanged", "mode") /\ state'.mode = last'.value) ]_vars

\* C15: the mode was switched to custom-path after other fields were edited
C15_Witness ==
    /\ ~state.dialogLoading
    /\ last.op = "onValueChanged"
    /\ last.key = "mode"
    /\ state.mode = CUSTOM_PATH
    /\ state.validate

\* the number of calls of the chains S of the delete dialog that are outstanding
RECURSIVE OutstandingDeleteCallsOf(_)
OutstandingDeleteCallsOf(S) ==
    IF S = {} THEN 0
    ELSE LET c == CHOOSE x \in S : TRUE
         IN  CopiesIn(c, deleteChains) * (IF c.stage = "volumes" THEN Cardinality(c.pending) ELSE 1)
                + OutstandingDeleteCallsOf(S \ {c})

\* C16: at most one external persistence call (storageVolumeDelete, storagePoolDeactivate,
\* storagePoolUndefine) of the storage-pool delete dialog is outstanding at any time.
C16_AtMostOneDeleteCallOutstanding ==
    OutstandingDeleteCallsOf(BagToSet(deleteChains)) <= 1

\* C17: no attach/create call is issued before storagePoolGetAll has resolved; while
\* dialogLoading is true the Add button is disabled; and when storagePoolGetAll is
\* rejected the dialog that is shown displays 'Storage pools could not be fetched' with
\* the message of the rejection, and the form stays in the loading state for good.
C17_LoadedBeforeUse ==
    /\ [](loadCall # "resolved" => (chains = EmptyBag /\ last.calls \in {<<>>, <<LoadCall>>}))
    /\ [](state.dialogLoading => ~AddEnabled(state))
    /\ [](loadCall = "rejected" => state.dialogLoading)
    /\ [][ (open /\ last'.op = "rejected" /\ last'.key = LoadCall) =>
                /\ state'.dialogError = "Storage pools could not be fetched"
                /\ state'.dialogErrorDetail = last'.value
                /\ state'.dialogLoading ]_vars

\* C17: storagePoolGetAll was rejected and the dialog shows the error over the spinner
C17_Witness ==
    /\ loadCall = "rejected"
    /\ open
    /\ state.dialogLoading
    /\ state.dialogError = "Storage pools could not be fetched"
    /\ ~AddEnabled(state)

\* C18: for a VM that is not running every attach/create call carries hotplug = false
\* and permanent = true; and no operation on the loaded form changes hotplug, which
\* is whether the VM was running when the state was initialised.
C18_ShutOffVmAttachesPermanently ==
    [][ /\ (last'.op = "onAddClicked" /\ last'.calls # <<>> /\ ~domainIsRunning(vm.state)) =>
                (~last'.args.hotplug /\ last'.args.permanent)
        /\ ~state.dialogLoading =>
                (state'.hotplug = state.hotplug /\ state.hotplug = domainIsRunning(vm.state)) ]_vars

\* C18: an existing volume was attached to a VM that is shut off
C18_Witness ==
    /\ last.op = "onAddClicked"
    /\ last.calls = <<AttachCall>>
    /\ state.mode = USE_EXISTING
    /\ vm.state = "shut off"
    /\ ~last.args.hotplug
    /\ last.args.permanent

\* C19: domainAttachDisk receives a truthy shareable only if the mode is use-existing,
\* the format of the volume selected is raw and at least one VM uses the volume.
C19_ShareableOnlyWhenUsed ==
    [][ (last'.op = "onAddClicked" /\ last'.calls = <<AttachCall>>
            /\ Truthy(last'.args.shareable)) =>
            /\ state.mode = USE_EXISTING
            /\ \E vol \in PoolNamed(state.storagePoolName).volumes :
                  /\ vol.name = state.existingVolumeName
                  /\ vol.format = "raw"
                  /\ \E m \in vms : \E d \in m.disks :
                        \/ d.type = "volume" /\ d.volume = vol.name /\ d.pool = state.storagePoolName
                        \/ d.type = "file" /\ d.file = vol.path ]_vars

SomeVolumeUsed(pool, allVms) ==
    LET isVolumeUsed == getStorageVolumesUsage(allVms, pool)
    IN  \E property \in DOMAIN isVolumeUsed : isVolumeUsed[property] # {}

\* a step of delete(): the click on Delete starts a promise chain
DeleteRan ==
    /\ deleteLast'.op = "delete"
    /\ BagCardinality(deleteChains') = BagCardinality(deleteChains) + 1

\* C21: whenever canDeleteOnlyWithoutVolumes(pool, vms) holds and deleteVolumes is
\* checked the Delete button is disabled, so delete() never runs then, and no
\* storageVolumeDelete call is issued for a pool a volume of which is used by a VM.
C21_UsedVolumesAreNotDeleted ==
    /\ [] ( ( /\ deleteOpen
              /\ canDeleteOnlyWithoutVolumes(storagePool, deleteVms)
              /\ deleteState.deleteVolumes ) => ~DeleteEnabled )
    /\ [][ DeleteRan =>
              /\ ~(canDeleteOnlyWithoutVolumes(storagePool, deleteVms) /\ deleteState.deleteVolumes)
              /\ (\E i \in DOMAIN deleteLast'.calls : deleteLast'.calls[i] = VolumeDeleteCall)
                    => ~SomeVolumeUsed(storagePool, deleteVms) ]_vars

\* C21: 'Delete the volumes inside this pool' was checked for a pool a volume of which
\* a VM uses by its path, and the Delete button is disabled
C21_Witness ==
    /\ deleteOpen
    /\ deleteLast.op = "onValueChanged"
    /\ deleteState.deleteVolumes
    /\ canDeleteOnlyWithoutVolumes(storagePool, deleteVms)
    /\ SomeVolumeUsed(storagePool, deleteVms)
    /\ ~DeleteEnabled

\* a disk of a VM names the pool in its source
ReferencedByName(pool, allVms) == \E m \in allVms : \E disk \in m.disks : disk.pool = pool.name

\* C22: the Delete item of a pool opens the delete dialog if and only if no disk of a VM
\* names the pool in its source and the pool is persistent; for a pool that a VM disk
\* names the dialog is not opened and delete() does not run, with or without
\* deleteVolumes; canDeleteOnlyWithoutVolumes implies canDelete.
C22_DeleteActionEnabledIffDeletable ==
    /\ [] ( (~deleteOpen /\ deleteLast.op = "none") =>
               ( (ENABLED DeleteDialogOpened) <=>
                    (~ReferencedByName(storagePool, deleteVms) /\ storagePool.persistent) ) )
    /\ [] ( canDeleteOnlyWithoutVolumes(storagePool, deleteVms) =>
               canDelete(storagePool, deleteVms) )
    /\ [] ( canDelete(storagePool, deleteVms) <=> ~ReferencedByName(storagePool, deleteVms) )
    /\ [][ (deleteOpen' /\ ~deleteOpen) =>
               (~ReferencedByName(storagePool, deleteVms) /\ storagePool.persistent) ]_vars
    /\ [][ DeleteRan => ~ReferencedByName(storagePool, deleteVms) ]_vars

\* C22: the Delete item of a persistent pool that no VM disk names has opened the dialog
C22_Witness ==
    /\ deleteOpen
    /\ deleteLast.op = "constructor"
    /\ ~ReferencedByName(storagePool, deleteVms)
    /\ storagePool.persistent

\* a step of save(): the click on Save starts a promise chain
SaveRan ==
    /\ bootLast'.op = "save"
    /\ BagCardinality(bootChains') = BagCardinality(bootChains) + 1

\* C23: the boot order is only editable when the guest is shut off: no
\* domainChangeBootOrder call is issued while vm.state differs from 'shut off'.
C23_BootOrderSavedOnlyWhenShutOff ==
    [][ SaveRan => bootVm.state = "shut off" ]_vars

\* C24: no domainAttachDisk call is issued with device 'cdrom' together with busType
\* 'virtio', after any sequence of file, device, busType and mode changes of the form,
\* a file ending in '.iso' included; the form never shows the two together either.
C24_NoCdromOnVirtio ==
    /\ [] ( FormShown => ~(state.device = "cdrom" /\ state.busType = "virtio") )
    /\ [][ (last'.op = "onAddClicked" /\ (\E i \in DOMAIN last'.calls : last'.calls[i] = AttachCall)) =>
              ~(last'.args.device = "cdrom" /\ last'.args.busType = "virtio") ]_vars

\* C24: a file ending in '.iso' was attached to a VM without a cdrom: as a cdrom on the
\* scsi bus
C24_Witness ==
    /\ last.op = "onAddClicked"
    /\ last.calls = <<AttachCall>>
    /\ state.mode = CUSTOM_PATH
    /\ EndsWithIso(state.file)
    /\ ~\E disk \in vm.disks : disk.device = "cdrom"
    /\ last.args.device = "cdrom"
    /\ last.args.busType = "scsi"

\* C25: in use-existing mode with a volume selected, format is the one derived from the
\* pool selected now and that volume: the volume's own format in a file-backed pool
\* when it has one, the default format of the pool otherwise; also right after the
\* switch into use-existing mode from a state where another pool was selected.
C25_FormatFollowsSelection ==
    (FormShown /\ state.mode = USE_EXISTING /\ state.existingVolumeName # UNDEF) =>
        state.format = FormatIn(PoolNamed(state.storagePoolName), state.existingVolumeName)

====
